---- MODULE Spec2Model ----
(***************************************************************************)
(* Model of lib/interactive.py: the interactive shell of the disassembler. *)
(* Tokens and lines are sequences of one-character strings, so that the    *)
(* tokenizer, the address parser and the completion engine are computed    *)
(* character by character as the code computes them.                       *)
(***************************************************************************)
EXTENDS Integers, Sequences, FiniteSets, TLC

VARIABLES
    repl,               \* position of Interactive.__init__'s while loop
    database_modified,  \* self.database_modified
    dis,                \* self.ctx.dis is not None
    filename,           \* self.ctx.filename (None or a token)
    symbols,            \* self.ctx.dis.binary.symbols         name -> addr
    reverse_symbols,    \* self.ctx.dis.binary.reverse_symbols  addr -> name
    sectionsname,       \* self.ctx.sectionsname
    comments,           \* self.ctx.comments
    history,            \* self.rl.history
    nlines,             \* number of lines submitted so far
    rl_line,            \* the line last handed to exec_command
    disk,               \* content of the database file of each file name
    saved,              \* symbols and history at start / at the last successful save
    last_change,        \* "start", "sym" or "save": the last successful sym definition or save
    entry,              \* self.ctx.entry (None or a token)
    print_data,         \* self.ctx.print_data
    out,                \* what the last step reported
    comp_in,            \* completion: the line, the directory listing and the symbol order
    comp_out            \* completion: what complete() returns

vars == <<repl, database_modified, dis, filename, symbols, reverse_symbols,
          sectionsname, comments, history, nlines, rl_line, disk, saved,
          last_change, entry, print_data, out, comp_in, comp_out>>

session_vars == <<repl, database_modified, dis, filename, symbols, reverse_symbols,
                  sectionsname, comments, history, nlines, rl_line, disk, saved,
                  last_change, entry, print_data, out>>

complete_vars == <<comp_in, comp_out>>

----------------------------------------------------------------------------
(* Bounds *)

MaxLines == 4        \* lines submitted in one run of the shell
MaxSymLines == 4     \* lines submitted in one run of sym commands
MaxDispatch == 1     \* lines submitted in one run over the whole command table
MaxCands == 3        \* candidates in one completion
MaxCandLen == 2      \* characters of a candidate before its separator
MaxLoadLines == 3    \* lines submitted in one run of load commands

----------------------------------------------------------------------------
(* Characters and strings *)

None == <<"None">>

SP == " "
DQ == "\""
SQ == "'"
BS == "\\"

HexDigits == {"0", "1", "2", "3", "4", "5", "6", "7", "8", "9",
              "a", "b", "c", "d", "e", "f", "A", "B", "C", "D", "E", "F"}

DecDigits == {"0", "1", "2", "3", "4", "5", "6", "7", "8", "9"}

DigitVal(c) ==
    CASE c = "0" -> 0 [] c = "1" -> 1 [] c = "2" -> 2 [] c = "3" -> 3
      [] c = "4" -> 4 [] c = "5" -> 5 [] c = "6" -> 6 [] c = "7" -> 7
      [] c = "8" -> 8 [] c = "9" -> 9
      [] c \in {"a", "A"} -> 10 [] c \in {"b", "B"} -> 11
      [] c \in {"c", "C"} -> 12 [] c \in {"d", "D"} -> 13
      [] c \in {"e", "E"} -> 14 [] c \in {"f", "F"} -> 15

\* a prefix test that looks at the first character only
startswith_first_char(s, p) == p = <<>> \/ (s # <<>> /\ s[1] = p[1])

\* str.startswith
startswith(s, p) ==
    /\ Len(p) <= Len(s)
    /\ \A i \in 1..Len(p) : s[i] = p[i]

\* s[n:]
DropFirst(s, n) == IF n >= Len(s) THEN <<>> ELSE SubSeq(s, n + 1, Len(s))

RECURSIVE PosVal(_, _, _)
PosVal(ds, base, acc) ==
    IF ds = <<>> THEN acc
    ELSE PosVal(Tail(ds), base, acc * base + DigitVal(Head(ds)))

\* int(s, 16) for the character set of the model (no sign, blank or
\* underscore): an optional 0x/0X prefix, then one or more hex digits.
\* Result: [ok |-> FALSE] stands for ValueError.
int16(s) ==
    LET body == IF Len(s) >= 2 /\ s[1] = "0" /\ s[2] \in {"x", "X"}
                THEN DropFirst(s, 2) ELSE s
    IN IF body # <<>> /\ \A i \in 1..Len(body) : body[i] \in HexDigits
       THEN [ok |-> TRUE, val |-> PosVal(body, 16, 0)]
       ELSE [ok |-> FALSE, val |-> 0]

\* int(s): decimal digits only.
int10(s) ==
    IF s # <<>> /\ \A i \in 1..Len(s) : s[i] \in DecDigits
    THEN [ok |-> TRUE, val |-> PosVal(s, 10, 0)]
    ELSE [ok |-> FALSE, val |-> 0]

----------------------------------------------------------------------------
(* shlex.split(line): posix rules, whitespace_split, no comment characters. *)
(* States: "ws" (between tokens), "a" (in a word), a quote character (in a  *)
(* quoted part), "esc" (after a backslash).  A token is emitted when it is  *)
(* non-empty or was quoted.                                                  *)

RECURSIVE shlex_read(_, _, _, _, _, _, _)
shlex_read(line, i, state, escapedstate, token, quoted, toks) ==
    LET emit == IF token # <<>> \/ quoted THEN Append(toks, token) ELSE toks IN
    IF i > Len(line)
    THEN IF state \in {SQ, DQ, "esc"}
         THEN [ok |-> FALSE, tokens |-> <<>>]    \* No closing quotation / No escaped character
         ELSE [ok |-> TRUE, tokens |-> emit]
    ELSE LET c == line[i] IN
         CASE state = "ws" ->
                IF c = SP THEN shlex_read(line, i + 1, "ws", "a", <<>>, FALSE, toks)
                ELSE IF c = BS THEN shlex_read(line, i + 1, "esc", "a", <<>>, FALSE, toks)
                ELSE IF c \in {SQ, DQ} THEN shlex_read(line, i + 1, c, "a", <<>>, TRUE, toks)
                ELSE shlex_read(line, i + 1, "a", "a", <<c>>, FALSE, toks)
           [] state = "a" ->
                IF c = SP THEN shlex_read(line, i + 1, "ws", "a", <<>>, FALSE, emit)
                ELSE IF c = BS THEN shlex_read(line, i + 1, "esc", "a", token, quoted, toks)
                ELSE IF c \in {SQ, DQ} THEN shlex_read(line, i + 1, c, "a", token, TRUE, toks)
                ELSE shlex_read(line, i + 1, "a", "a", Append(token, c), quoted, toks)
           [] state \in {SQ, DQ} ->
                IF c = state THEN shlex_read(line, i + 1, "a", "a", token, TRUE, toks)
                ELSE IF state = DQ /\ c = BS
                     THEN shlex_read(line, i + 1, "esc", DQ, token, TRUE, toks)
                ELSE shlex_read(line, i + 1, state, "a", Append(token, c), TRUE, toks)
           [] state = "esc" ->
                IF escapedstate = DQ /\ c # BS /\ c # DQ
                THEN shlex_read(line, i + 1, DQ, "a", token \o <<BS, c>>, quoted, toks)
                ELSE shlex_read(line, i + 1, escapedstate, "a", Append(token, c), quoted, toks)

shlex_split(line) == shlex_read(line, 1, "ws", "a", <<>>, FALSE, <<>>)

----------------------------------------------------------------------------
(* Command names, as character sequences *)

N_help == <<"h", "e", "l", "p">>

N_save == <<"s", "a", "v", "e">>

N_load == <<"l", "o", "a", "d">>

N_lrawx86 == <<"l", "r", "a", "w", "x", "8", "6">>

N_lrawx64 == <<"l", "r", "a", "w", "x", "6", "4">>

N_lrawarm == <<"l", "r", "a", "w", "a", "r", "m">>

N_lrawmips == <<"l", "r", "a", "w", "m", "i", "p", "s">>

N_lrawmips64 == <<"l", "r", "a", "w", "m", "i", "p", "s", "6", "4">>

N_x == <<"x">>

N_da == <<"d", "a">>

N_db == <<"d", "b">>

N_dd == <<"d", "d">>

N_dw == <<"d", "w">>

N_dq == <<"d", "q">>

N_dump == <<"d", "u", "m", "p">>

N_set == <<"s", "e", "t">>

N_sym == <<"s", "y", "m">>

N_calls == <<"c", "a", "l", "l", "s">>

N_exit == <<"e", "x", "i", "t">>

N_sections == <<"s", "e", "c", "t", "i", "o", "n", "s">>

N_info == <<"i", "n", "f", "o">>

N_display_print_section == <<"d", "i", "s", "p", "l", "a", "y", ".", "p", "r", "i", "n", "t", "_", "s", "e", "c", "t", "i", "o", "n">>

N_display_print_comments == <<"d", "i", "s", "p", "l", "a", "y", ".", "p", "r", "i", "n", "t", "_", "c", "o", "m", "m", "e", "n", "t", "s">>

\* self.COMMANDS_ALPHA, in the order of the list
COMMANDS_ALPHA ==
    <<N_calls,
      N_da,
      N_db,
      N_dd,
      N_dw,
      N_dq,
      N_dump,
      N_exit,
      N_help,
      N_info,
      N_load,
      N_lrawarm,
      N_lrawmips,
      N_lrawmips64,
      N_lrawx86,
      N_lrawx64,
      N_save,
      N_sections,
      N_sym,
      N_x,
      N_display_print_section,
      N_display_print_comments>>

Command(max_args, callback_exec, callback_complete) ==
    [max_args |-> max_args, callback_exec |-> callback_exec,
     callback_complete |-> callback_complete]

CommandNames ==
    {N_help,
     N_save,
     N_load,
     N_lrawx86,
     N_lrawx64,
     N_lrawarm,
     N_lrawmips,
     N_lrawmips64,
     N_x,
     N_da,
     N_db,
     N_dd,
     N_dw,
     N_dq,
     N_dump,
     N_set,
     N_sym,
     N_calls,
     N_exit,
     N_sections,
     N_info,
     N_display_print_section,
     N_display_print_comments}

\* self.COMMANDS; an absent callback is "None"
COMMANDS ==
    [n \in CommandNames |->
        CASE n = N_help -> Command(0, "__exec_help", "None")
          [] n = N_save -> Command(0, "__exec_save", "None")
          [] n = N_load -> Command(1, "__exec_load", "__complete_load")
          [] n = N_lrawx86 -> Command(1, "__exec_lrawx86", "__complete_load")
          [] n = N_lrawx64 -> Command(1, "__exec_lrawx64", "__complete_load")
          [] n = N_lrawarm -> Command(1, "__exec_lrawarm", "__complete_load")
          [] n = N_lrawmips -> Command(1, "__exec_lrawmips", "__complete_load")
          [] n = N_lrawmips64 -> Command(1, "__exec_lrawmips64", "__complete_load")
          [] n = N_x -> Command(1, "__exec_x", "__complete_x")
          [] n = N_da -> Command(2, "__exec_data", "__complete_x")
          [] n = N_db -> Command(2, "__exec_data", "__complete_x")
          [] n = N_dd -> Command(2, "__exec_data", "__complete_x")
          [] n = N_dw -> Command(2, "__exec_data", "__complete_x")
          [] n = N_dq -> Command(2, "__exec_data", "__complete_x")
          [] n = N_dump -> Command(2, "__exec_dump", "__complete_x")
          [] n = N_set -> Command(3, "None", "None")
          [] n = N_sym -> Command(3, "__exec_sym", "__complete_x")
          [] n = N_calls -> Command(1, "__exec_calls", "__complete_x")
          [] n = N_exit -> Command(0, "__exec_exit", "None")
          [] n = N_sections -> Command(0, "__exec_sections", "None")
          [] n = N_info -> Command(0, "__exec_info", "None")
          [] n = N_display_print_section -> Command(0, "__exec_display_print_section", "None")
          [] n = N_display_print_comments -> Command(0, "__exec_display_print_comments", "None")]

----------------------------------------------------------------------------
(* Dictionaries *)

EmptyDict == <<>>

Put(f, k, v) == [x \in (DOMAIN f) \cup {k} |-> IF x = k THEN v ELSE f[x]]

Del(f, k) == [x \in (DOMAIN f) \ {k} |-> f[x]]

\* the reverse table the loader builds for an injective symbol table
Inverse(f) == [a \in {f[n] : n \in DOMAIN f} |-> CHOOSE n \in DOMAIN f : f[n] = a]

----------------------------------------------------------------------------
(* What a step reports: the tokens of the line, the executor invoked, the   *)
(* error() text, the exception that left the handler, and for a sym        *)
(* definition that parsed its address, the name and the address.           *)

NoAddr == 0 - 1

Outcome(op, args, exec, err, exc, name, addr) ==
    [op |-> op, args |-> args, exec |-> exec, err |-> err,
     exc |-> exc, name |-> name, addr |-> addr]

\* an exception that leaves exec_command leaves rl.loop() and the while loop;
\* SystemExit ends the process
AfterCommand(exc) ==
    IF exc = "none" THEN repl
    ELSE IF exc = "SystemExit" THEN "Terminated"
    ELSE "Crashed"

Report(args, exec, err, exc) ==
    /\ out' = Outcome("line", args, exec, err, exc, None, NoAddr)
    /\ repl' = AfterCommand(exc)

\* the line that ReadLine adds to its history: the nlines-th submitted line
rl_history == Append(history, nlines + 1)

CtxUnchanged ==
    UNCHANGED <<database_modified, dis, filename, symbols, reverse_symbols,
                sectionsname, comments, disk, saved, last_change, entry, print_data>>

NoEffect == CtxUnchanged /\ history' = rl_history

----------------------------------------------------------------------------
(* The executors *)

E_load_before == "load a file before"

E_filename == "filename required"

E_section == "section required"

E_bad_filter == "bad arguments (warn: need spaces between |)"

E_bad_args == "bad arguments"

E_need_addr == "an address is required to save the symbol"

E_need_0x == "the address should starts with 0x"

E_sym_create == "there was an error when creating a symbol"

E_unknown == "unknown command"

E_max_args == "takes max args"

\* a definition that also unbinds the name that held the address
sym_define_exclusive(s, r, name, addr) ==
    IF name \in DOMAIN s /\ s[name] \notin DOMAIN r
    THEN [raised |-> TRUE, symbols |-> s, reverse_symbols |-> r]
    ELSE LET r1 == IF name \in DOMAIN s THEN Del(r, s[name]) ELSE r
             s1 == IF addr \in DOMAIN r1 THEN Del(s, r1[addr]) ELSE s
         IN [raised |-> FALSE,
             symbols |-> Put(s1, name, addr),
             reverse_symbols |-> Put(r1, addr, name)]

\* the body of the try block of __exec_sym once the address is parsed:
\* raised stands for the KeyError of `del reverse_symbols[last]`
sym_define(s, r, name, addr) ==
    IF name \in DOMAIN s /\ s[name] \notin DOMAIN r
    THEN [raised |-> TRUE, symbols |-> s, reverse_symbols |-> r]
    ELSE LET r1 == IF name \in DOMAIN s THEN Del(r, s[name]) ELSE r
         IN [raised |-> FALSE,
             symbols |-> Put(s, name, addr),
             reverse_symbols |-> Put(r1, addr, name)]

\* the prefix test dropped
has_0x_unchecked(a) == TRUE

\* args[2].startswith("0x")
has_0x(a) == startswith(a, <<"0", "x">>)

exec_sym(args) ==
    LET X == "__exec_sym" IN
    IF ~dis THEN Report(args, X, E_load_before, "none") /\ NoEffect
    ELSE IF Len(args) = 1 THEN Report(args, X, "none", "none") /\ NoEffect
    ELSE IF args[2] = <<>> THEN Report(args, X, "none", "IndexError") /\ NoEffect
    ELSE IF args[2][1] = "|"
         THEN IF Len(args) = 2 \/ Len(args) > 3
              THEN Report(args, X, E_bad_filter, "none") /\ NoEffect
              ELSE Report(args, X, "none", "none") /\ NoEffect
    ELSE IF Len(args) > 3 THEN Report(args, X, E_bad_args, "none") /\ NoEffect
    ELSE IF Len(args) = 2 THEN Report(args, X, E_need_addr, "none") /\ NoEffect
    ELSE IF ~has_0x(args[3]) THEN Report(args, X, E_need_0x, "none") /\ NoEffect
    ELSE LET n == int16(args[3]) IN
         IF ~n.ok THEN Report(args, X, E_sym_create, "none") /\ NoEffect
         ELSE LET d == sym_define(symbols, reverse_symbols, args[2], n.val) IN
              /\ database_modified' = TRUE
              /\ symbols' = d.symbols
              /\ reverse_symbols' = d.reverse_symbols
              /\ last_change' = IF d.raised THEN last_change ELSE "sym"
              /\ out' = Outcome("line", args, X,
                                 IF d.raised THEN E_sym_create ELSE "none",
                                 "none", args[2], n.val)
              /\ repl' = repl
              /\ history' = rl_history
              /\ UNCHANGED <<dis, filename, sectionsname, comments, disk, saved,
                             entry, print_data>>

\* an exit that returns to the read loop
exec_exit_returns(args) ==
    /\ Report(args, "__exec_exit", "none", "none")
    /\ NoEffect

exec_exit(args) ==
    /\ Report(args, "__exec_exit", "none", "SystemExit")
    /\ NoEffect

\* __exec_save never assigns database_modified
exec_save(args) ==
    LET X == "__exec_save" IN
    IF ~dis
    THEN Report(args, X, "none", "TypeError") /\ NoEffect     \* open(None, "w+")
    ELSE \E io_ok \in BOOLEAN :
            IF ~io_ok
            THEN Report(args, X, "none", "OSError") /\ NoEffect
            ELSE /\ disk' = Put(disk, filename,
                                 [state |-> "saved", symbols |-> symbols,
                                  history |-> rl_history])
                 /\ saved' = [symbols |-> symbols, history |-> rl_history]
                 /\ last_change' = "save"
                 /\ history' = rl_history
                 /\ Report(args, X, "none", "none")
                 /\ UNCHANGED <<database_modified, dis, filename, symbols,
                                reverse_symbols, sectionsname, comments, entry,
                                print_data>>

exec_display_print_section(args) ==
    /\ sectionsname' = ~sectionsname
    /\ history' = rl_history
    /\ Report(args, "__exec_display_print_section", "none", "none")
    /\ UNCHANGED <<database_modified, dis, filename, symbols, reverse_symbols,
                   comments, disk, saved, last_change, entry, print_data>>

exec_display_print_comments(args) ==
    /\ comments' = ~comments
    /\ history' = rl_history
    /\ Report(args, "__exec_display_print_comments", "none", "none")
    /\ UNCHANGED <<database_modified, dis, filename, symbols, reverse_symbols,
                   sectionsname, disk, saved, last_change, entry, print_data>>

exec_help(args) == Report(args, "__exec_help", "none", "none") /\ NoEffect

exec_sections(args) ==
    IF ~dis THEN Report(args, "__exec_sections", E_load_before, "none") /\ NoEffect
    ELSE Report(args, "__exec_sections", "none", "none") /\ NoEffect

\* with a file name but no binary, ctx.dis.binary raises
exec_info(args) ==
    IF filename = None THEN Report(args, "__exec_info", "none", "none") /\ NoEffect
    ELSE IF ~dis THEN Report(args, "__exec_info", "none", "AttributeError") /\ NoEffect
    ELSE Report(args, "__exec_info", "none", "none") /\ NoEffect

\* __exec_x without its test of ctx.dis: the entry is assigned at once
exec_x_unguarded(args) ==
    /\ entry' = IF Len(args) = 1 THEN None ELSE args[2]
    /\ history' = rl_history
    /\ Report(args, "__exec_x", IF dis THEN "none" ELSE E_load_before, "none")
    /\ UNCHANGED <<database_modified, dis, filename, symbols, reverse_symbols,
                   sectionsname, comments, disk, saved, last_change, print_data>>

\* init_entry_addr(ctx) and the disassembler are collaborators: resolved is
\* the truth value init_entry_addr returns
exec_x(args) ==
    IF ~dis THEN Report(args, "__exec_x", E_load_before, "none") /\ NoEffect
    ELSE \E resolved \in BOOLEAN :
            /\ entry' = IF resolved \/ Len(args) = 1 THEN None ELSE args[2]
            /\ history' = rl_history
            /\ Report(args, "__exec_x", "none", "none")
            /\ UNCHANGED <<database_modified, dis, filename, symbols, reverse_symbols,
                           sectionsname, comments, disk, saved, last_change, print_data>>

exec_dump(args) ==
    IF ~dis THEN Report(args, "__exec_dump", E_load_before, "none") /\ NoEffect
    ELSE IF Len(args) = 3 /\ ~int10(args[3]).ok
         THEN Report(args, "__exec_dump", "none", "ValueError") /\ NoEffect
    ELSE \E resolved \in BOOLEAN :
            /\ entry' = IF resolved \/ Len(args) = 1 THEN None ELSE args[2]
            /\ history' = rl_history
            /\ Report(args, "__exec_dump", "none", "none")
            /\ UNCHANGED <<database_modified, dis, filename, symbols, reverse_symbols,
                           sectionsname, comments, disk, saved, last_change, print_data>>

exec_data(args) ==
    IF ~dis THEN Report(args, "__exec_data", E_load_before, "none") /\ NoEffect
    ELSE IF Len(args) = 3 /\ ~int10(args[3]).ok
         THEN Report(args, "__exec_data", "none", "ValueError") /\ NoEffect
    ELSE \E resolved \in BOOLEAN :
            /\ entry' = IF resolved \/ Len(args) = 1 THEN None ELSE args[2]
            /\ print_data' = ~resolved
            /\ history' = rl_history
            /\ Report(args, "__exec_data", "none", "none")
            /\ UNCHANGED <<database_modified, dis, filename, symbols, reverse_symbols,
                           sectionsname, comments, disk, saved, last_change>>

exec_calls(args) ==
    IF Len(args) # 2 THEN Report(args, "__exec_calls", E_section, "none") /\ NoEffect
    ELSE IF ~dis THEN Report(args, "__exec_calls", E_load_before, "none") /\ NoEffect
    ELSE \E resolved \in BOOLEAN :
            /\ entry' = IF resolved THEN None ELSE entry
            /\ history' = rl_history
            /\ Report(args, "__exec_calls", "none", "none")
            /\ UNCHANGED <<database_modified, dis, filename, symbols, reverse_symbols,
                           sectionsname, comments, disk, saved, last_change, print_data>>

\* names and addresses the loader can find in a binary
LoaderNames == {<<"a">>, <<"b">>}

LoaderAddrs == {1, 2}

\* the symbol tables of a freshly loaded binary: injective
LoadedTables ==
    {t \in UNION {[D -> LoaderAddrs] : D \in SUBSET LoaderNames} :
        \A m, n \in DOMAIN t : t[m] = t[n] => m = n}

NoDb == [state |-> "absent", symbols |-> EmptyDict, history |-> <<>>]

db_of(f) == IF f \in DOMAIN disk THEN disk[f] ELSE NoDb

\* a load that also clears database_modified with the rest of the session
load_family_clears(args, X, restore) ==
    IF Len(args) # 2 THEN Report(args, X, E_filename, "none") /\ NoEffect
    ELSE \E loaded \in BOOLEAN, t \in LoadedTables :
            /\ loaded \/ t = EmptyDict
            /\ database_modified' = FALSE
            /\ dis' = loaded
            /\ filename' = args[2]
            /\ symbols' = t
            /\ reverse_symbols' = Inverse(t)
            /\ entry' = None
            /\ print_data' = FALSE
            /\ history' = IF restore /\ loaded /\ db_of(args[2]).state = "saved"
                           THEN db_of(args[2]).history ELSE rl_history
            /\ Report(args, X, "none", "none")
            /\ UNCHANGED <<sectionsname, comments, disk, saved, last_change>>

\* ctx.reset_all(), ctx.filename = args[1], load_file(ctx): the loader either
\* fails (no binary) or installs a binary with its symbol table; restore is
\* true for load, which takes rl.history from the database when there is one
load_family(args, X, restore) ==
    IF Len(args) # 2 THEN Report(args, X, E_filename, "none") /\ NoEffect
    ELSE \E loaded \in BOOLEAN, t \in LoadedTables :
            /\ loaded \/ t = EmptyDict
            /\ dis' = loaded
            /\ filename' = args[2]
            /\ symbols' = t
            /\ reverse_symbols' = Inverse(t)
            /\ entry' = None
            /\ print_data' = FALSE
            /\ history' = IF restore /\ loaded /\ db_of(args[2]).state = "saved"
                          THEN db_of(args[2]).history
                          ELSE rl_history
            /\ Report(args, X, "none", "none")
            /\ UNCHANGED <<database_modified, sectionsname, comments, disk, saved,
                           last_change>>

exec_load(args) == load_family(args, "__exec_load", TRUE)

exec_lrawx86(args) == load_family(args, "__exec_lrawx86", FALSE)

exec_lrawx64(args) == load_family(args, "__exec_lrawx64", FALSE)

exec_lrawarm(args) == load_family(args, "__exec_lrawarm", FALSE)

exec_lrawmips(args) == load_family(args, "__exec_lrawmips", FALSE)

exec_lrawmips64(args) == load_family(args, "__exec_lrawmips64", FALSE)

----------------------------------------------------------------------------
(* The dispatcher *)

\* the comparison off by one
too_many_args_off_by_one(args, c) == Len(args) - 1 >= c.max_args

\* len(args)-1 > c.max_args
too_many_args(args, c) == Len(args) - 1 > c.max_args

callback_exec(f, args) ==
    CASE f = "__exec_help" -> exec_help(args)
      [] f = "__exec_save" -> exec_save(args)
      [] f = "__exec_load" -> exec_load(args)
      [] f = "__exec_lrawx86" -> exec_lrawx86(args)
      [] f = "__exec_lrawx64" -> exec_lrawx64(args)
      [] f = "__exec_lrawarm" -> exec_lrawarm(args)
      [] f = "__exec_lrawmips" -> exec_lrawmips(args)
      [] f = "__exec_lrawmips64" -> exec_lrawmips64(args)
      [] f = "__exec_x" -> exec_x(args)
      [] f = "__exec_data" -> exec_data(args)
      [] f = "__exec_dump" -> exec_dump(args)
      [] f = "__exec_sym" -> exec_sym(args)
      [] f = "__exec_calls" -> exec_calls(args)
      [] f = "__exec_exit" -> exec_exit(args)
      [] f = "__exec_sections" -> exec_sections(args)
      [] f = "__exec_info" -> exec_info(args)
      [] f = "__exec_display_print_section" -> exec_display_print_section(args)
      [] f = "__exec_display_print_comments" -> exec_display_print_comments(args)

\* the error call forgotten: the line is dropped silently
unknown_command_silent(args) == Report(args, "None", "none", "none") /\ NoEffect

\* `if args[0] not in self.COMMANDS: error("unknown command"); return`
unknown_command(args) == Report(args, "None", E_unknown, "none") /\ NoEffect

\* the test of callback_exec forgotten: None is called
no_callback_called(args) == Report(args, "None", "none", "TypeError") /\ NoEffect

\* `if c.callback_exec is not None:` is false: nothing is called
no_callback(args) == Report(args, "None", "none", "none") /\ NoEffect

exec_command(line) ==
    LET sp == shlex_split(line) IN
    IF ~sp.ok THEN Report(<<>>, "None", "none", "ValueError") /\ NoEffect
    ELSE LET args == sp.tokens IN
         IF args = <<>> THEN Report(args, "None", "none", "IndexError") /\ NoEffect
         ELSE IF args[1] \notin DOMAIN COMMANDS
              THEN unknown_command(args)
         ELSE LET c == COMMANDS[args[1]] IN
              IF too_many_args(args, c)
              THEN Report(args, "None", E_max_args, "none") /\ NoEffect
              ELSE IF c.callback_exec = "None"
                   THEN no_callback(args)
                   ELSE callback_exec(c.callback_exec, args)

----------------------------------------------------------------------------
(* Completion *)

MAX_PRINT_COMPLETE == 80

Max(S) == CHOOSE x \in S : \A y \in S : y <= x

Min(S) == CHOOSE x \in S : \A y \in S : x <= y

\* a completer returns None for too many possibilities, a list otherwise
TooMany == [too_many |-> TRUE, comp |-> <<>>]

Found(comp) == [too_many |-> FALSE, comp |-> comp]

\* the loop without the separator appended to a candidate
complete_command_no_space(last_tok, k, i, comp) ==
    LET Test(cmd) == startswith(cmd, last_tok)
        names == SelectSeq(SubSeq(COMMANDS_ALPHA, k, Len(COMMANDS_ALPHA)), Test)
    IN IF i + Len(names) >= MAX_PRINT_COMPLETE THEN TooMany
       ELSE Found(comp \o [m \in 1..Len(names) |-> DropFirst(names[m], Len(last_tok))])

\* the loop over self.COMMANDS_ALPHA of complete(), from the k-th name on
RECURSIVE complete_command(_, _, _, _)
complete_command(last_tok, k, i, comp) ==
    IF k > Len(COMMANDS_ALPHA) THEN Found(comp)
    ELSE LET cmd == COMMANDS_ALPHA[k] IN
         IF startswith(cmd, last_tok)
         THEN IF i + 1 = MAX_PRINT_COMPLETE THEN TooMany
              ELSE complete_command(last_tok, k + 1, i + 1,
                                    Append(comp, DropFirst(cmd, Len(last_tok)) \o <<SP>>))
         ELSE complete_command(last_tok, k + 1, i, comp)

\* index of the last "/" of p, 0 when there is none
LastSlash(p) == Max({0} \cup {i \in 1..Len(p) : p[i] = "/"})

\* os.path.basename
basename_of(p) == DropFirst(p, LastSlash(p))

\* f.replace(" ", "\\ ")
RECURSIVE backslashed(_)
backslashed(f) ==
    IF f = <<>> THEN <<>>
    ELSE (IF Head(f) = SP THEN <<BS, SP>> ELSE <<Head(f)>>) \o backslashed(Tail(f))

\* the indices k..n in order: what a loop visits from its k-th item on
IndicesFrom(k, n) == [m \in 1..(n - k + 1) |-> k + m - 1]

\* the loop over os.listdir(dirname) of __complete_load, from the k-th entry
\* on, with i matches counted and comp collected so far: each match is
\* appended and counted, and the loop returns None at the match that makes
\* the counter equal to MAX_PRINT_COMPLETE
complete_listdir(basename, entries, k, i, comp) ==
    LET Match(m) == startswith(entries[m].name, basename)
        matches == SelectSeq(IndicesFrom(k, Len(entries)), Match)
        s(m) == backslashed(entries[m].name)
                    \o (IF entries[m].isdir THEN <<"/">> ELSE <<SP>>)
    IN IF i + Len(matches) >= MAX_PRINT_COMPLETE THEN TooMany
       ELSE Found(comp \o [m \in 1..Len(matches) |->
                              DropFirst(s(matches[m]), Len(basename))])

\* listing: what os.listdir(dirname) yields; exists is false for FileNotFoundError
complete_load(nth_arg, last_tok, listing) ==
    IF nth_arg # 1 THEN Found(<<>>)
    ELSE IF ~listing.exists THEN Found(<<>>)
    ELSE complete_listdir(basename_of(last_tok), listing.entries, 1, 0, <<>>)

\* the loop of __find_symbol over the keys of the symbol table, in dict
\* order, from the k-th key on: as the loop of __complete_load
find_symbol(last_tok, keys, k, i, comp) ==
    LET Match(m) == startswith(keys[m], last_tok)
        matches == SelectSeq(IndicesFrom(k, Len(keys)), Match)
    IN IF i + Len(matches) >= MAX_PRINT_COMPLETE THEN TooMany
       ELSE Found(comp \o [m \in 1..Len(matches) |->
                              DropFirst(keys[matches[m]] \o <<SP>>, Len(last_tok))])

complete_x(nth_arg, last_tok, keys) ==
    IF nth_arg # 1 \/ ~dis THEN Found(<<>>)
    ELSE find_symbol(last_tok, keys, 1, 0, <<>>)

\* {len(word): i for i, word in enumerate(comp)}: the last index of each length
words_idx(comp) ==
    [l \in {Len(comp[k]) : k \in 1..Len(comp)} |->
        Max({k \in 1..Len(comp) : Len(comp[k]) = l})]

\* the first candidate taken as the reference
ref_first(comp) == 1

\* ref = words_idx[min(words_idx)]
ref_of(comp) == words_idx(comp)[Min(DOMAIN words_idx(comp))]

\* a scan that compares the reference with one other candidate only
compare_one_word(comp, ref, i, char, j) ==
    LET k == IF ref = 1 THEN 2 ELSE 1 IN
    IF comp[k][i] # char THEN "differs" ELSE "found"

\* the inner loop `for j in words_idx` at position i, from index j on:
\* "found", "differs", or "IndexError" for a read past the end of comp[j]
\* (the loop stops at the first index whose candidate ends before i or
\* differs there)
compare_words(comp, ref, i, char, j) ==
    LET stops == {k \in j..Len(comp) :
                     k # ref /\ (i > Len(comp[k]) \/ comp[k][i] # char)}
    IN IF stops = {} THEN "found"
       ELSE IF i > Len(comp[Min(stops)]) THEN "IndexError"
       ELSE "differs"

\* the outer loop `for i, char in enumerate(comp[ref])`
RECURSIVE common_scan(_, _, _, _)
common_scan(comp, ref, i, common) ==
    IF i > Len(comp[ref]) THEN [exc |-> "none", common |-> common]
    ELSE LET r == compare_words(comp, ref, i, comp[ref][i], 1) IN
         IF r = "IndexError" THEN [exc |-> "IndexError", common |-> common]
         ELSE IF r = "differs" THEN [exc |-> "none", common |-> common]
         ELSE common_scan(comp, ref, i + 1, Append(common, comp[ref][i]))

Completion(exc, too_many, comp, last_tok, common) ==
    [exc |-> exc, too_many |-> too_many, comp |-> comp, last_tok |-> last_tok,
     common |-> common]

\* complete(line); listing and keys are what the file system and the symbol
\* dictionary yield when the completer iterates over them
complete(line, listing, keys) ==
    LET sp == shlex_split(line \o <<"_">>) IN
    IF ~sp.ok THEN Completion("ValueError", FALSE, <<>>, None, None)
    ELSE LET tokens == sp.tokens
             last == tokens[Len(tokens)]
             last_tok == SubSeq(last, 1, Len(last) - 1)
             r == IF Len(tokens) = 1 THEN complete_command(last_tok, 1, 0, <<>>)
                  ELSE IF tokens[1] \notin DOMAIN COMMANDS THEN Found(<<>>)
                  ELSE LET f == COMMANDS[tokens[1]].callback_complete IN
                       IF f = "__complete_load"
                       THEN complete_load(Len(tokens) - 1, last_tok, listing)
                       ELSE IF f = "__complete_x"
                       THEN complete_x(Len(tokens) - 1, last_tok, keys)
                       ELSE Found(<<>>)
         IN IF r.too_many THEN Completion("none", TRUE, <<>>, None, None)
            ELSE IF Len(r.comp) <= 1
                 THEN Completion("none", FALSE, r.comp, last_tok, None)
            ELSE LET c == common_scan(r.comp, ref_of(r.comp), 1, <<>>)
                 IN Completion(c.exc, FALSE, r.comp, last_tok, c.common)

----------------------------------------------------------------------------
(* The lines the operator submits *)

T_a == <<"a">>

T_b == <<"b">>

T_f == <<"f">>

T_one == <<"1">>

T_bar == <<"|">>

T_zz == <<"z", "z">>

GoodAddrs == {<<"0", "x", "1">>, <<"0", "x", "2">>, <<"0", "x", "0", "1">>}

BadAddrs == {<<"1">>, <<"0", "x">>, <<"0", "x", "g">>, <<"0", "X", "1">>, <<"x", "1">>}

RECURSIVE Join(_)
Join(toks) ==
    IF toks = <<>> THEN <<>>
    ELSE IF Len(toks) = 1 THEN toks[1]
    ELSE toks[1] \o <<SP>> \o Join(Tail(toks))

SymArgs ==
    {<<>>, <<T_a>>, <<T_bar>>, <<T_bar, T_a>>, <<T_bar, T_a, T_b>>,
     <<T_a, <<"0", "x", "1">>, T_b>>, <<T_a, <<"0", "x", "1">>, T_b, T_a>>}
    \cup {<<n, x>> : n \in {T_a, T_b}, x \in GoodAddrs \cup BadAddrs}

GenArgs == {<<>>, <<T_a>>, <<T_a, T_one>>, <<T_a, T_a>>, <<T_a, T_one, T_one>>,
            <<T_a, T_a, T_a, T_a>>}

FileArgs == {<<>>, <<T_f>>, <<T_f, T_f>>}

LoadNames == {N_load, N_lrawx86, N_lrawx64, N_lrawarm, N_lrawmips, N_lrawmips64}

ArgsOf(n) ==
    IF n = N_sym THEN SymArgs
    ELSE IF n \in LoadNames THEN FileArgs
    ELSE IF n \notin CommandNames THEN {<<>>, <<T_a>>, <<T_a, T_a, T_a, T_a>>}
    ELSE {al \in GenArgs : Len(al) <= COMMANDS[n].max_args + 1}

WordLines == {Join(<<n>> \o al) : n \in CommandNames \cup {T_zz}, al \in {<<>>}}

TokenLists == UNION {{<<n>> \o al : al \in ArgsOf(n)} : n \in CommandNames \cup {T_zz}}

\* blank lines, quoting, and an unbalanced quote
QuotedLines ==
    {<<>>, <<SP>>,
     N_sym \o <<SP, DQ, "a", DQ, SP, "0", "x", "2">>,
     N_sym \o <<SP, DQ, DQ, SP, "0", "x", "1">>,
     N_sym \o <<SP, SQ, "a">>,
     N_save \o <<SP, SP>>}

Lines == {Join(tl) : tl \in TokenLists} \cup QuotedLines

----------------------------------------------------------------------------
(* The read loop and the while loop of Interactive.__init__ *)

\* the condition inverted
loop_break_inverted(modified) == modified

\* `if not self.database_modified: break`
loop_break(modified) == ~modified

\* rl.loop(): a line is entered; ReadLine records it and calls exec_command
Enter(L, max) ==
    /\ repl = "Running"
    /\ nlines < max
    /\ nlines' = nlines + 1
    /\ \E line \in L : rl_line' = line /\ exec_command(line)
    /\ UNCHANGED complete_vars

\* rl.loop() returns on end of input
EndOfInput ==
    /\ repl = "Running"
    /\ repl' = IF loop_break(database_modified) THEN "Terminated" ELSE "AwaitingSave"
    /\ out' = Outcome("eof", <<>>, "None", "none", "none", None, NoAddr)
    /\ UNCHANGED <<database_modified, dis, filename, symbols, reverse_symbols,
                   sectionsname, comments, history, nlines, rl_line, disk, saved,
                   last_change, entry, print_data>>
    /\ UNCHANGED complete_vars

\* print("the database was modified, run save or exit to force"); rl.loop()
Warn ==
    /\ repl = "AwaitingSave"
    /\ repl' = "Running"
    /\ out' = Outcome("warn", <<>>, "None", "none", "none", None, NoAddr)
    /\ UNCHANGED <<database_modified, dis, filename, symbols, reverse_symbols,
                   sectionsname, comments, history, nlines, rl_line, disk, saved,
                   last_change, entry, print_data>>
    /\ UNCHANGED complete_vars

IdleInput == [kind |-> "none", line |-> <<>>, listing |-> [exists |-> FALSE, entries |-> <<>>],
              keys |-> <<>>]

Pending == Completion("pending", FALSE, <<>>, None, None)

NoCompletion ==
    /\ comp_in = IdleInput
    /\ comp_out = Pending

\* the state once __init__ reaches its while loop: no file, a file that the
\* loader refused, or a loaded binary with one of the given symbol tables;
\* the database of a former session may exist (its history lines are
\* numbered 0)
SessionInit(Tables) ==
    /\ repl = "Running"
    /\ database_modified = FALSE
    /\ \E t \in Tables :
          /\ symbols = t
          /\ reverse_symbols = Inverse(t)
          /\ dis \in BOOLEAN
          /\ dis \/ t = EmptyDict
    /\ filename \in {None, T_f}
    /\ dis => filename = T_f
    /\ disk \in {[f \in {T_f} |-> NoDb],
                 [f \in {T_f} |-> [state |-> "saved", symbols |-> EmptyDict,
                                   history |-> <<0>>]]}
    /\ history = IF dis /\ disk[T_f].state = "saved" THEN disk[T_f].history ELSE <<>>
    /\ sectionsname = TRUE
    /\ comments = TRUE
    /\ nlines = 0
    /\ rl_line = <<>>
    /\ saved = [symbols |-> symbols, history |-> history]
    /\ last_change = "start"
    /\ entry \in {None, T_a}
    /\ entry # None => ~dis
    /\ print_data = FALSE
    /\ out = Outcome("start", <<>>, "None", "none", "none", None, NoAddr)

Init == SessionInit(LoadedTables) /\ NoCompletion

\* the lines of a working session: definitions, save, load, exit
SessionLines ==
    {Join(tl) : tl \in {<<N_sym, T_a, <<"0", "x", "1">> >>,
                        <<N_sym, T_a, <<"0", "x", "2">> >>,
                        <<N_sym, T_b, <<"0", "x", "1">> >>,
                        <<N_sym, T_a, <<"1">> >>,
                        <<N_sym>>,
                        <<N_save>>,
                        <<N_exit>>,
                        <<N_load, T_f>>,
                        <<N_lrawx86, T_f>>}}

SymLines ==
    {Join(<<N_sym>> \o al) : al \in SymArgs}
    \cup {l \in QuotedLines : startswith(l, N_sym)}

Submit == Enter(SessionLines, MaxLines)

SubmitSym == Enter(SymLines, MaxSymLines)

SubmitAny == Enter(Lines, MaxDispatch)

Next ==
    \/ Submit
    \/ EndOfInput
    \/ Warn

Spec == Init /\ [][Next]_vars

NextSym == SubmitSym

\* runs of sym commands start without a database and without an entry point
InitSym ==
    /\ Init
    /\ disk[T_f] = NoDb
    /\ entry = None

SpecSym == InitSym /\ [][NextSym]_vars

NextDispatch == SubmitAny

\* a definition, the load commands with and without their file name
LoadLines ==
    {Join(<<N_sym, T_a, <<"0", "x", "1">> >>)}
    \cup {Join(<<n>> \o al) : n \in LoadNames, al \in {<<>>, <<T_f>>}}

SubmitLoad == Enter(LoadLines, MaxLoadLines)

NextLoad ==
    \/ SubmitLoad
    \/ EndOfInput
    \/ Warn

SpecLoad == InitSym /\ [][NextLoad]_vars

SpecDispatch == Init /\ [][NextDispatch]_vars

----------------------------------------------------------------------------
(* Completion requests: Tab is pressed once on a line *)

FileChars == {"a", "b"}

\* non-empty names of at most MaxCandLen characters
FileNames == UNION {[1..n -> FileChars] : n \in 1..MaxCandLen}

\* at most MaxCands distinct names, in the order os.listdir yields them
NameLists ==
    {e \in UNION {[1..n -> FileNames] : n \in 0..MaxCands} :
        \A i, j \in DOMAIN e : e[i] = e[j] => i = j}

\* the listing of names ns, whose first entry is a directory when first_isdir
DirEntries(ns, first_isdir) ==
    [k \in DOMAIN ns |-> [name |-> ns[k], isdir |-> first_isdir /\ k = 1]]

DecChars == <<"0", "1", "2", "3", "4", "5", "6", "7", "8", "9">>

\* n distinct names n01, n02, ...
ManyNames(n) == [k \in 1..n |-> <<"n", DecChars[(k \div 10) + 1], DecChars[(k % 10) + 1]>>]

\* numbers of names around the cap of the completers
CapSizes == {MAX_PRINT_COMPLETE - 1, MAX_PRINT_COMPLETE, MAX_PRINT_COMPLETE + 1}

\* directory listings: a missing directory, the listings of NameLists, one
\* with blanks in its names, and listings of about MAX_PRINT_COMPLETE names
Listings ==
    {[exists |-> FALSE, entries |-> <<>>]}
    \cup {[exists |-> TRUE, entries |-> DirEntries(ns, d)] :
            ns \in NameLists, d \in BOOLEAN}
    \cup {[exists |-> TRUE,
           entries |-> <<[name |-> <<"a", SP, "c", "d">>, isdir |-> FALSE],
                         [name |-> <<"a", SP, "b">>, isdir |-> FALSE],
                         [name |-> <<"a", SP, "c">>, isdir |-> TRUE]>>]}
    \cup {[exists |-> TRUE, entries |-> DirEntries(ManyNames(n), FALSE)] : n \in CapSizes}

KeyOrders(S) ==
    {k \in [1..Cardinality(S) -> S] : \A i, j \in DOMAIN k : k[i] = k[j] => i = j}

CompletionNames == {<<"a">>, <<"a", "b">>, <<"a", "b", "a">>, <<"b">>, <<"a", SP, "b">>}

\* symbol tables of about MAX_PRINT_COMPLETE names, the k-th name at address k
ManyTables ==
    {[nm \in {ManyNames(n)[k] : k \in 1..n} |->
         CHOOSE k \in 1..n : ManyNames(n)[k] = nm] : n \in CapSizes}

CompletionTables ==
    {[n \in D |-> 4 * Len(n) + (IF n[1] = "a" THEN 0 ELSE 1)
                             + (IF n = <<"a", SP, "b">> THEN 2 ELSE 0)] :
        D \in SUBSET CompletionNames}
    \cup ManyTables

\* the orders in which the symbols of a table are iterated
TableOrders(t) ==
    IF t \in ManyTables THEN {ManyNames(Cardinality(DOMAIN t))}
    ELSE KeyOrders(DOMAIN t)

CommandPrefixLines ==
    {<<>>, <<"l">>, <<"l", "o">>, <<"l", "r">>, <<"d">>, <<"d", "i">>, <<"s">>,
     <<"s", "e">>, <<"x">>, <<"z">>, <<"e", "x", "i", "t">>, <<SP>>, <<DQ, "l">>}

PathLines ==
    {N_load \o <<SP>>, N_load \o <<SP, "a">>, N_lrawx86 \o <<SP, "d", "/", "a">>,
     N_load \o <<SP, "a", BS, SP>>, N_load \o <<SP, "a", SP>>}

SymbolLines ==
    {N_sym \o <<SP>>, N_sym \o <<SP, "a">>, N_x \o <<SP, "a", "b">>, N_x \o <<SP, "n">>,
     N_sym \o <<SP, "a", SP>>, N_set \o <<SP>>, T_zz \o <<SP>>, N_help \o <<SP>>}

Request(kind, line, listing, keys) ==
    [kind |-> kind, line |-> line, listing |-> listing, keys |-> keys]

InitComplete ==
    /\ SessionInit(CompletionTables)
    /\ disk[T_f] = NoDb
    /\ entry = None
    /\ comp_out = Pending
    /\ \/ /\ ~dis /\ filename = None
          /\ comp_in \in {Request("command", l, IdleInput.listing, <<>>) :
                             l \in CommandPrefixLines}
       \/ /\ ~dis /\ filename = None
          /\ comp_in \in {Request("path", l, ls, <<>>) : l \in PathLines, ls \in Listings}
       \/ /\ filename = T_f
          /\ comp_in \in {Request("symbol", l, IdleInput.listing, k) :
                             l \in SymbolLines, k \in TableOrders(symbols)}

\* rl calls self.complete(line)
Complete(kind) ==
    /\ comp_in.kind = kind
    /\ comp_out = Pending
    /\ comp_out' = complete(comp_in.line, comp_in.listing, comp_in.keys)
    /\ UNCHANGED comp_in
    /\ UNCHANGED session_vars

CompleteCommand == Complete("command")

CompletePath == Complete("path")

CompleteSymbol == Complete("symbol")

NextComplete ==
    \/ CompleteCommand
    \/ CompletePath
    \/ CompleteSymbol

SpecComplete == InitComplete /\ [][NextComplete]_vars

\* the read loop is eventually re-entered after the warning: the code runs on
FairSpec == Spec /\ WF_vars(Warn)

----------------------------------------------------------------------------
(* Properties *)

OutCmd == IF out.args = <<>> THEN None ELSE out.args[1]

OutNargs == IF out.args = <<>> THEN 0 ELSE Len(out.args) - 1

\* the step entered a line
LineStep == nlines' = nlines + 1 /\ out'.op = "line"

\* no reverse entry names a symbol whose forward address is not the entry's key
NoStaleReverse ==
    \A a \in DOMAIN reverse_symbols :
        /\ reverse_symbols[a] \in DOMAIN symbols
        /\ symbols[reverse_symbols[a]] = a

\* C1: with a binary loaded, after any sequence of sym commands every
\* (name, addr) pair of the symbol table satisfies reverse_symbols[addr] = name
\* and no address is the value of more than one name.
C1_SymbolBijection ==
    dis =>
        /\ \A n \in DOMAIN symbols :
              /\ symbols[n] \in DOMAIN reverse_symbols
              /\ reverse_symbols[symbols[n]] = n
        /\ \A m, n \in DOMAIN symbols : symbols[m] = symbols[n] => m = n

\* C2: when `sym NAME 0xNEW` rebinds a NAME bound to OLD # NEW, afterwards
\* the reverse table has no entry OLD -> NAME, NAME maps to NEW, NEW maps
\* back to NAME, and no reverse entry is stale.
C2_RebindMovesReverse ==
    [][(/\ LineStep
        /\ out'.name # None
        /\ out'.name \in DOMAIN symbols
        /\ symbols[out'.name] # out'.addr)
       => LET name == out'.name
              old == symbols[name]
              new == out'.addr
          IN /\ ~(old \in DOMAIN reverse_symbols' /\ reverse_symbols'[old] = name)
             /\ name \in DOMAIN symbols' /\ symbols'[name] = new
             /\ new \in DOMAIN reverse_symbols' /\ reverse_symbols'[new] = name
             /\ NoStaleReverse']_vars

C4_LoopStateMachine ==
    /\ [](out.op = "eof" =>
            /\ repl = "Terminated" <=> ~database_modified
            /\ database_modified => repl = "AwaitingSave")
    /\ [][/\ repl = "AwaitingSave" => repl' = "Running" /\ out'.op = "warn"
          /\ repl' = "AwaitingSave" => repl = "Running" /\ out'.op = "eof"
          /\ repl = "Terminated" => repl' = "Terminated"]_vars
    /\ (repl = "AwaitingSave") ~> (repl = "Running")

C4_Witness ==
    /\ out.op = "warn"
    /\ repl = "Running"
    /\ database_modified

\* C5: a dispatched `exit` terminates the shell at once, whatever
\* database_modified is, without the end-of-input check.
C5_ExitTerminates ==
    (out.op = "line" /\ out.args = <<N_exit>>) =>
        /\ out.exec = "__exec_exit"
        /\ repl = "Terminated"

C5_Witness ==
    /\ out.op = "line"
    /\ out.args = <<N_exit>>
    /\ database_modified
    /\ repl = "Terminated"

\* C6: for every registered command, a line with more than max_args
\* arguments is rejected with the too-many-arguments error and no executor
\* runs; a line with at most max_args arguments is not rejected for its
\* argument count and reaches the executor when there is one.
C6_MaxArgsExact ==
    (out.op = "line" /\ OutCmd \in CommandNames) =>
        LET c == COMMANDS[OutCmd] IN
        /\ OutNargs > c.max_args => out.err = E_max_args /\ out.exec = "None"
        /\ OutNargs <= c.max_args =>
              /\ out.err # E_max_args
              /\ out.exec = c.callback_exec

C6_Witness ==
    /\ out.op = "line"
    /\ OutCmd = N_sym
    /\ OutNargs = COMMANDS[N_sym].max_args + 1
    /\ out.err = E_max_args

BadAddress(a) ==
    \/ Len(a) < 2
    \/ a[1] # "0"
    \/ a[2] # "x"
    \/ Len(a) = 2
    \/ \E i \in 3..Len(a) : a[i] \notin HexDigits

\* a line `sym NAME ADDR` (NAME is not a filter bar)
IsSymNameAddr(args) ==
    /\ Len(args) = 3
    /\ args[1] = N_sym
    /\ args[2] # <<>>
    /\ args[2][1] # "|"

\* C9: `sym NAME ADDR` with an ADDR that does not start with 0x or is not
\* hexadecimal reports an error and leaves the symbol table, the reverse
\* table and database_modified unchanged.
C9_BadAddressNoMutation ==
    [][(LineStep /\ IsSymNameAddr(out'.args) /\ BadAddress(out'.args[3]))
       => /\ out'.err # "none"
          /\ out'.exc = "none"
          /\ UNCHANGED <<symbols, reverse_symbols, database_modified>>]_vars

C9_Witness ==
    /\ dis
    /\ ~database_modified
    /\ out.op = "line"
    /\ IsSymNameAddr(out.args)
    /\ out.args[3] = <<"0", "x", "g">>
    /\ out.err = E_sym_create

\* C10: with a binary loaded, a successful `sym NAME 0xADDR` leaves NAME
\* bound to ADDR, ADDR bound to NAME in the reverse table, database_modified
\* true, and every other name's forward binding as it was.
C10_DefineBinds ==
    [][(LineStep /\ dis /\ IsSymNameAddr(out'.args) /\ ~BadAddress(out'.args[3])
        /\ out'.err = "none")
       => LET name == out'.args[2]
              addr == PosVal(DropFirst(out'.args[3], 2), 16, 0)
          IN /\ name \in DOMAIN symbols' /\ symbols'[name] = addr
             /\ addr \in DOMAIN reverse_symbols' /\ reverse_symbols'[addr] = name
             /\ database_modified'
             /\ DOMAIN symbols' = DOMAIN symbols \cup {name}
             /\ \A n \in DOMAIN symbols \ {name} : symbols'[n] = symbols[n]]_vars

C10_Witness ==
    /\ dis
    /\ out.op = "line"
    /\ IsSymNameAddr(out.args)
    /\ out.err = "none"
    /\ out.name \in DOMAIN symbols
    /\ symbols[out.name] = out.addr
    /\ \E n \in DOMAIN symbols : n # out.name /\ symbols[n] = out.addr

IsCommonPrefix(p, comp) == \A k \in 1..Len(comp) : startswith(comp[k], p)

\* C7: for two or more candidates, the common string returned by complete()
\* is the longest string that is a prefix of every candidate.
C7_CommonIsLongestPrefix ==
    (comp_out.exc # "pending" /\ ~comp_out.too_many /\ Len(comp_out.comp) >= 2) =>
        /\ comp_out.exc = "none"
        /\ comp_out.common # None
        /\ IsCommonPrefix(comp_out.common, comp_out.comp)
        /\ LET first == comp_out.comp[1]
               n == Len(comp_out.common)
           IN Len(first) > n => ~IsCommonPrefix(SubSeq(first, 1, n + 1), comp_out.comp)

\* three candidates, the shortest length shared by two of them and not by
\* the first, a non-empty common string shorter than the shortest candidate
C7_Witness ==
    /\ comp_out.exc = "none"
    /\ Len(comp_out.comp) = 3
    /\ Len(comp_out.comp[1]) > Len(comp_out.comp[2])
    /\ Len(comp_out.comp[2]) = Len(comp_out.comp[3])
    /\ comp_out.common # <<>>
    /\ Len(comp_out.common) < Len(comp_out.comp[2])

----------------------------------------------------------------------------
(* Saving, blank lines and quoting, the dispatcher's rejections *)

\* what a command may change besides the history, the database files and
\* the loop's position
CtxState == <<database_modified, dis, filename, symbols, reverse_symbols,
              sectionsname, comments, entry, print_data>>

Blank(l) == \A i \in DOMAIN l : l[i] = SP

\* C12: a line that is empty or holds only blanks is a silent no-op:
\* exec_command returns normally, reports no error, calls no executor and
\* changes nothing of the session
C12_BlankLineNoOp ==
    [][(LineStep /\ Blank(rl_line')) =>
          /\ out'.exc = "none"
          /\ out'.err = "none"
          /\ out'.exec = "None"
          /\ repl' = "Running"
          /\ UNCHANGED CtxState
          /\ UNCHANGED disk]_vars

\* C13: a line whose quoting is malformed is handled inside exec_command:
\* the tokenizer's failure does not leave exec_command, an error is
\* reported, the loop keeps running and nothing of the session changes
C13_BadQuotingRecovered ==
    [][(LineStep /\ ~shlex_split(rl_line').ok) =>
          /\ out'.exc = "none"
          /\ out'.err # "none"
          /\ out'.exec = "None"
          /\ repl' = "Running"
          /\ UNCHANGED CtxState
          /\ UNCHANGED disk]_vars

\* the tokens of a line that tokenizes to at least one token
HasTokens(l) == shlex_split(l).ok /\ shlex_split(l).tokens # <<>>

\* the step leaves the session as it was: no executor ran
NothingRan ==
    /\ out'.exec = "None"
    /\ out'.exc = "none"
    /\ repl' = "Running"
    /\ UNCHANGED CtxState
    /\ UNCHANGED disk

\* C14: a line whose first token is not a registered command name reports
\* `unknown command` and returns: no executor is called and the session is
\* unchanged, however many arguments follow the name
C14_UnknownCommand ==
    [][(LineStep /\ HasTokens(rl_line')
          /\ shlex_split(rl_line').tokens[1] \notin CommandNames) =>
          /\ out'.err = E_unknown
          /\ NothingRan]_vars

\* an unknown name followed by four arguments has been rejected
C14_Witness ==
    /\ out.op = "line"
    /\ Len(out.args) = 5
    /\ out.args[1] = T_zz
    /\ out.err = E_unknown

\* C15: `set` is registered without an executor: with at most max_args
\* arguments the line returns silently, no error and no change; with more
\* it is rejected by the argument count
C15_SetPlaceholder ==
    [][(LineStep /\ HasTokens(rl_line')
          /\ shlex_split(rl_line').tokens[1] = N_set) =>
          /\ out'.err = IF Len(shlex_split(rl_line').tokens) - 1 <= COMMANDS[N_set].max_args
                        THEN "none" ELSE E_max_args
          /\ NothingRan]_vars

\* `set` with exactly max_args arguments has returned silently
C15_Witness ==
    /\ out.op = "line"
    /\ Len(out.args) = COMMANDS[N_set].max_args + 1
    /\ out.args[1] = N_set
    /\ out.err = "none"
    /\ out.exc = "none"

\* the executors of the load family
LoadExecs == {"__exec_load", "__exec_lrawx86", "__exec_lrawx64", "__exec_lrawarm",
              "__exec_lrawmips", "__exec_lrawmips64"}

\* C17: after a load command has loaded a file that has no saved database,
\* the history holds no line of the time before the load (at most the load
\* line itself, which the input component records); after `load` of a file
\* with a saved database the history is the saved one
C17_LoadHistory ==
    [][(LineStep /\ out'.exec \in LoadExecs /\ out'.err = "none" /\ dis') =>
          IF disk[filename'].state = "saved"
          THEN out'.exec = "__exec_load" => history' = disk[filename'].history
          ELSE \A k \in DOMAIN history' : history'[k] = nlines']_vars

----------------------------------------------------------------------------
(* Completion: the cap, the candidates of a command name, the scan *)

\* a token typed without blanks, quotes, backslashes or slashes
Plain(p) == \A i \in DOMAIN p : p[i] \notin {SP, DQ, SQ, BS, "/"}

\* number of names of the sequence that start with p
CountPrefix(names, p) == Cardinality({k \in DOMAIN names : startswith(names[k], p)})

\* the completion request scans names for the plain prefix typed last: the
\* command names, the entries of the directory after `load `, the symbols
\* of the loaded binary after `x `
ScansNames ==
    \/ comp_in.kind = "command" /\ Plain(comp_in.line)
    \/ /\ comp_in.kind = "path"
       /\ startswith(comp_in.line, N_load \o <<SP>>)
       /\ Plain(DropFirst(comp_in.line, Len(N_load) + 1))
       /\ comp_in.listing.exists
    \/ /\ comp_in.kind = "symbol"
       /\ startswith(comp_in.line, N_x \o <<SP>>)
       /\ Plain(DropFirst(comp_in.line, Len(N_x) + 1))
       /\ dis

\* the number of names that match the request
Matching ==
    CASE comp_in.kind = "command" -> CountPrefix(COMMANDS_ALPHA, comp_in.line)
      [] comp_in.kind = "path" ->
            CountPrefix([k \in DOMAIN comp_in.listing.entries |->
                            comp_in.listing.entries[k].name],
                        DropFirst(comp_in.line, Len(N_load) + 1))
      [] comp_in.kind = "symbol" ->
            CountPrefix(comp_in.keys, DropFirst(comp_in.line, Len(N_x) + 1))

\* C16: completion gives the too-many signal when more than
\* MAX_PRINT_COMPLETE names match and the full candidate list when
\* MAX_PRINT_COMPLETE or fewer match (exactly MAX_PRINT_COMPLETE included);
\* the signal differs from an empty list of candidates
C16_CapAtEighty ==
    (ScansNames /\ comp_out.exc = "none") =>
        /\ comp_out.too_many <=> Matching > MAX_PRINT_COMPLETE
        /\ ~comp_out.too_many => Len(comp_out.comp) = Matching
        /\ comp_out.too_many => comp_out # Completion("none", FALSE, <<>>, comp_out.last_tok, None)

T_lo == <<"l", "o">>

\* C18, as the specification states it: completing the line `lo` returns
\* five candidates with the common string `ad`
C18_LoFiveCandidates ==
    (comp_in.kind = "command" /\ comp_in.line = T_lo /\ comp_out.exc # "pending") =>
        /\ Len(comp_out.comp) = 5
        /\ comp_out.common = <<"a", "d">>

\* C18, amended: completing the line `lo` returns the single candidate
\* `ad ` (the rest of `load`, the only name of COMMANDS_ALPHA that starts
\* with `lo`, and the separator), the current token `lo`, and no common
\* string
C18_LoCompletesLoad ==
    (comp_in.kind = "command" /\ comp_in.line = T_lo /\ comp_out.exc # "pending") =>
        /\ comp_out.exc = "none"
        /\ ~comp_out.too_many
        /\ comp_out.comp = << <<"a", "d", SP>> >>
        /\ comp_out.last_tok = T_lo
        /\ comp_out.common = None

\* the line `lo` has been completed
C18_Witness ==
    /\ comp_in.kind = "command"
    /\ comp_in.line = T_lo
    /\ comp_out.exc = "none"
    /\ Len(comp_out.comp) = 1

\* p is a prefix of n
IsPrefixOf(p, n) == Len(p) <= Len(n) /\ SubSeq(n, 1, Len(p)) = p

\* the names of COMMANDS_ALPHA that start with p, in the order of the list
NamesWith(p) ==
    LET Test(n) == IsPrefixOf(p, n) IN SelectSeq(COMMANDS_ALPHA, Test)

\* C19: when the line holds the single token T, the candidates are, in the
\* order of COMMANDS_ALPHA, the rest of each name that starts with T
\* followed by a blank, none missing and none extra, and the returned
\* current token is T
C19_CommandCandidates ==
    (comp_in.kind = "command" /\ Plain(comp_in.line) /\ comp_out.exc # "pending") =>
        /\ comp_out.exc = "none"
        /\ ~comp_out.too_many
        /\ Len(comp_out.comp) = Len(NamesWith(comp_in.line))
        /\ \A k \in DOMAIN comp_out.comp :
              comp_in.line \o comp_out.comp[k] = NamesWith(comp_in.line)[k] \o <<SP>>
        /\ comp_out.last_tok = comp_in.line

\* the token `l` has been completed to the six names that start with it
C19_Witness ==
    /\ comp_in.kind = "command"
    /\ comp_in.line = <<"l">>
    /\ comp_out.exc = "none"
    /\ Len(comp_out.comp) = 6

\* C20: for two or more candidates the scan of complete() never reads a
\* candidate at or past its end, because the reference it iterates over
\* is a candidate of minimal length
C20_ScanStaysInRange ==
    (comp_out.exc # "pending" /\ ~comp_out.too_many /\ Len(comp_out.comp) >= 2) =>
        /\ comp_out.exc # "IndexError"
        /\ \A k \in DOMAIN comp_out.comp :
              Len(comp_out.comp[ref_of(comp_out.comp)]) <= Len(comp_out.comp[k])

\* a scan over candidates of which a later one is a proper prefix of the
\* first: a reference other than a shortest one would be read past its end
C20_Witness ==
    /\ comp_out.exc = "none"
    /\ Len(comp_out.comp) >= 2
    /\ \E k \in DOMAIN comp_out.comp :
          /\ k > 1
          /\ Len(comp_out.comp[k]) < Len(comp_out.comp[1])
          /\ IsPrefixOf(comp_out.comp[k], comp_out.comp[1])

----------------------------------------------------------------------------
(* Commands without a loaded binary, loads with unsaved changes *)

\* the commands whose executor tests ctx.dis
NeedBinary == {N_sym, N_x, N_dump, N_da, N_db, N_dd, N_dw, N_dq, N_sections, N_calls}

\* the line reaches an executor that needs a binary: a command of
\* NeedBinary with no more than max_args arguments, `calls` with its section
ReachesBinaryTest(l) ==
    /\ HasTokens(l)
    /\ LET args == shlex_split(l).tokens IN
          /\ args[1] \in NeedBinary
          /\ Len(args) - 1 <= COMMANDS[args[1]].max_args
          /\ args[1] = N_calls => Len(args) = 2

\* C21: a command that needs a loaded binary, entered while none is loaded,
\* reports `load a file before` and returns: database_modified, the display
\* options, the entry and print_data keep their values, nothing else of the
\* session changes, and no result of a collaborator shows
C21_MissingBinary ==
    [][(LineStep /\ ~dis /\ ReachesBinaryTest(rl_line')) =>
          /\ out'.err = E_load_before
          /\ out'.exc = "none"
          /\ repl' = "Running"
          /\ UNCHANGED CtxState
          /\ UNCHANGED disk]_vars

\* `x a` has been refused without a binary, and the entry given at start
\* is still in place
C21_Witness ==
    /\ ~dis
    /\ out.op = "line"
    /\ out.args = <<N_x, T_a>>
    /\ out.err = E_load_before
    /\ entry = T_a

\* C22: no command of the load family changes database_modified; when it
\* is true before the load it is true after it, and the end of input that
\* follows does not terminate the shell
C22_LoadKeepsDirty ==
    [][/\ (LineStep /\ out'.exec \in LoadExecs) =>
              database_modified' = database_modified
       /\ (out.op = "line" /\ out.exec \in LoadExecs /\ database_modified
              /\ out'.op = "eof") => repl' = "AwaitingSave"]_vars

\* the input ended right after a load that replaced a modified, unsaved
\* symbol table, and the shell asks for save or exit
C22_Witness ==
    /\ out.op = "eof"
    /\ repl = "AwaitingSave"
    /\ database_modified
    /\ last_change = "sym"
    /\ rl_line \in {Join(<<n, T_f>>) : n \in LoadNames}
    /\ T_a \notin DOMAIN symbols

====
